---------------------------- MODULE Spec2Model ----------------------------
(***************************************************************************)
(* Model of crates/file of gloo: the callback based FileReader wrapper     *)
(* (file_reader.rs) and the numeric bridge used by Blob/File (blob.rs).    *)
(*                                                                         *)
(* The browser's FileReader is the environment.  It is modelled by what    *)
(* its interface lets the Rust code observe: a ready state, a result slot, *)
(* an error slot and the list of "loadend" listeners.  As the File API     *)
(* prescribes, the task that ends a read sets the ready state to DONE,     *)
(* fills the result or the error slot and dispatches "loadend" in one      *)
(* step (HostFinish).  HostNotify is a further dispatch of "loadend" on a  *)
(* reader that is DONE: a simulated notification.  SpecSplit is the host   *)
(* that is seen DONE before it dispatches "loadend" (HostDone, then        *)
(* HostNotify), for what Drop does in between.                             *)
(***************************************************************************)
EXTENDS Integers, Sequences, FiniteSets, TLC

VARIABLES ops,      \* the read operations: one record per operation
          bridge,   \* the call made on blob.rs, with what it returned
          list      \* a host file collection and the FileList built from it

vars == <<ops, bridge, list>>

(***************************************************************************)
(* Bounds                                                                  *)
(***************************************************************************)
\* how many files a host collection holds at most
MaxFiles == 3

\* how many "loadend" dispatches the host performs on one reader
MaxNotify == 2

\* bits of an f64 significand (53 in IEEE 754 binary64), scaled down so that
\* every magnitude of the scaled u64 and u128 is enumerated
MantBits == 3

\* widths of u64 and u128, scaled with the significand
U64Bits == MantBits + 2
U128Bits == MantBits + 3

\* the operations that may be in flight together
Ops == {"A", "B"}

\* blob contents handed to read_to_* (sequences of characters)
Contents == {<<>>, <<"H", "i">>}

Modes == {"text", "data_url", "array_buffer"}

\* host exceptions a read can end with
Exceptions == {"NotReadableError"}

(***************************************************************************)
(* JS values                                                               *)
(***************************************************************************)
JsNull == [kind |-> "null", val |-> <<>>]
JsString(s) == [kind |-> "string", val |-> s]
JsArrayBuffer(b) == [kind |-> "ArrayBuffer", val |-> b]

NoError == "none"

\* FileReader.readyState
EMPTY == "empty"
LOADING == "loading"
DONE == "done"

\* what the host decodes for a finished read of `blob` in `mode`
HostDecode(mode, blob) ==
    CASE mode = "text" -> JsString(blob)
      [] mode = "data_url" -> JsString(<<"data:", ";base64,">> \o blob)
      [] OTHER -> JsArrayBuffer(blob)

(***************************************************************************)
(* One read operation.                                                     *)
(*   handle     "none" (read_as not called), "held" (the caller owns the   *)
(*              FileReader), "dropped", "forgotten" (mem::forget),         *)
(*              "failed" (read_as threw, nothing was returned)             *)
(*   readyState, result, error   the web_sys::FileReader                   *)
(*   registered the host holds the "loadend" listener of this operation    *)
(*   once       that listener was registered with {once: true}             *)
(*   on_loadend the field FileReader.on_loadend: "Some" / "None"           *)
(*   calls      what the caller's callback was invoked with, in order      *)
(*   log        the calls made on the host reader, in order                *)
(*   fault      an exception was thrown out of the loadend listener        *)
(*   notified   how many loadend dispatches the host has performed         *)
(***************************************************************************)
NewOp == [handle |-> "none", mode |-> "text", blob |-> <<>>,
          readyState |-> EMPTY, result |-> JsNull, error |-> NoError,
          registered |-> FALSE, once |-> FALSE, on_loadend |-> "None",
          calls |-> <<>>, log |-> <<>>, fault |-> FALSE, notified |-> 0]

Log(r, what) == [r EXCEPT !.log = Append(@, what)]

(***************************************************************************)
(* file_reader.rs: the closure and the conversions                         *)
(***************************************************************************)
\* Result<JsValue, FileReadError>
Ok(v) == [ok |-> TRUE, val |-> v, error |-> NoError]
Err(e) == [ok |-> FALSE, val |-> JsNull, error |-> e]
\* unwrap_throw on a None: the JS exception thrown
Thrown == [ok |-> FALSE, val |-> JsNull, error |-> "thrown"]

\* get_result that never looks at the error slot
get_result_IgnoresError(r) == Ok(r.result)

\* get_result with the two branches exchanged
get_result_Swapped(r) ==
    IF r.error # NoError
    THEN Ok(r.result)
    ELSE Err("NotReadableError")

get_result(r) ==
    IF r.error # NoError
    THEN Err(r.error)
    ELSE Ok(r.result)

\* js.as_string().unwrap_throw(): None for anything but a JS string
as_string(js) ==
    IF js.kind = "string" THEN [some |-> TRUE, val |-> js.val]
                          ELSE [some |-> FALSE, val |-> <<>>]

\* the closures read_to_string / read_to_data_url / read_to_array_buffer wrap
\* the caller's callback in: x.map(as_string) or x.map(Into::into)
MapOutcome(mode, x) ==
    IF ~x.ok THEN x
    ELSE IF mode \in {"text", "data_url"}
         THEN IF as_string(x.val).some
              THEN Ok([type |-> "String", val |-> as_string(x.val).val])
              ELSE Thrown
         ELSE Ok([type |-> "ArrayBuffer", val |-> x.val.val])

\* the listener body: callback(get_result(&reader))
OnLoadend(r) ==
    LET out == MapOutcome(r.mode, get_result(r))
    IN IF out.error = "thrown"
       THEN [r EXCEPT !.fault = TRUE]
       ELSE [r EXCEPT !.calls = Append(@, out)]

(***************************************************************************)
(* The host: event dispatch and FileReader.abort                           *)
(***************************************************************************)
\* EventListener::once: addEventListener with {once: true}
EventListenerOnce(r) ==
    Log([r EXCEPT !.registered = TRUE, !.once = TRUE, !.on_loadend = "Some"],
        "addEventListener")

\* EventListener::new: a listener that stays registered when it has fired
EventListenerNew(r) ==
    Log([r EXCEPT !.registered = TRUE, !.once = FALSE, !.on_loadend = "Some"],
        "addEventListener")

\* dropping an EventListener: removeEventListener
EventListenerDrop(r) ==
    Log([r EXCEPT !.registered = FALSE, !.on_loadend = "None"], "removeEventListener")

\* dispatch of "loadend": a once listener is removed, then run
DispatchLoadend(r) ==
    IF r.registered
    THEN OnLoadend([r EXCEPT !.registered = ~r.once])
    ELSE r

\* FileReader.abort(): outside LOADING it only clears the result; in LOADING
\* it ends the read and fires "abort" and "loadend"
HostAbort(r) ==
    LET r1 == Log(r, "abort")
    IN IF r1.readyState # LOADING
       THEN [r1 EXCEPT !.result = JsNull]
       ELSE DispatchLoadend([r1 EXCEPT !.readyState = DONE, !.result = JsNull])

(***************************************************************************)
(* file_reader.rs: read_as and Drop                                        *)
(***************************************************************************)
\* the host's readAsText / readAsDataURL / readAsArrayBuffer: the read starts,
\* or the host rejects the request and throws
HostReadAs(r, mode, accepted) ==
    IF accepted
    THEN Log([r EXCEPT !.readyState = LOADING], mode)
    ELSE Log(r, "rejected")

\* the last request made of the host reader was rejected
Rejected(r) == r.log # <<>> /\ r.log[Len(r.log)] = "rejected"

\* read_as with a listener that is not one-shot
read_as_NotOnce(r, mode, blob, accepted) ==
    LET r0 == Log([r EXCEPT !.mode = mode, !.blob = blob], "new")
        r1 == EventListenerNew(r0)
        r2 == HostReadAs(r1, mode, accepted)
    IN IF Rejected(r2)
       THEN [r2 EXCEPT !.handle = "failed"]
       ELSE [r2 EXCEPT !.handle = "held"]

\* read_as that issues the read before it registers the listener
read_as_ReadFirst(r, mode, blob, accepted) ==
    LET r0 == Log([r EXCEPT !.mode = mode, !.blob = blob], "new")
        r1 == HostReadAs(r0, mode, accepted)
    IN IF Rejected(r1)
       THEN [r1 EXCEPT !.handle = "failed"]
       ELSE [EventListenerOnce(r1) EXCEPT !.handle = "held"]

\* read_as that drops the Result of the read request
read_as_IgnoresFailure(r, mode, blob, accepted) ==
    LET r0 == Log([r EXCEPT !.mode = mode, !.blob = blob], "new")
        r1 == EventListenerOnce(r0)
        r2 == HostReadAs(r1, mode, accepted)
    IN [r2 EXCEPT !.handle = "held"]

\* read_as: a new reader, the one-shot listener, the read request; a request
\* the host rejects is thrown on by unwrap_throw and no FileReader is returned
read_as(r, mode, blob, accepted) ==
    LET r0 == Log([r EXCEPT !.mode = mode, !.blob = blob], "new")
        r1 == EventListenerOnce(r0)
        r2 == HostReadAs(r1, mode, accepted)
    IN IF Rejected(r2)
       THEN [r2 EXCEPT !.handle = "failed"]
       ELSE [r2 EXCEPT !.handle = "held"]

\* drop that aborts and leaves the listener to the drop glue
drop_AbortOnly(r) ==
    IF r.readyState # DONE THEN HostAbort(r) ELSE r

\* drop that aborts before it takes the listener
drop_AbortFirst(r) ==
    IF r.readyState # DONE THEN EventListenerDrop(HostAbort(r)) ELSE r

\* drop that takes the listener and never aborts
drop_TakeOnly(r) ==
    IF r.readyState # DONE THEN EventListenerDrop(r) ELSE r

\* drop without the ready state test
drop_Unconditional(r) == HostAbort(EventListenerDrop(r))

\* drop with the ready state test inverted
drop_Inverted(r) ==
    IF r.readyState = DONE THEN HostAbort(EventListenerDrop(r)) ELSE r

\* Drop::drop of FileReader
drop(r) ==
    IF r.readyState # DONE
    THEN HostAbort(EventListenerDrop(r))
    ELSE r

\* a FileReader whose fields are never dropped
DropFields_Leak(r) == r

\* drop glue: after Drop::drop the fields are dropped
DropFields(r) ==
    IF r.on_loadend = "Some" THEN EventListenerDrop(r) ELSE r

DropHandle(r) == [DropFields(drop(r)) EXCEPT !.handle = "dropped"]

(***************************************************************************)
(* blob.rs: the numeric bridge                                             *)
(***************************************************************************)
RECURSIVE BitLen(_)
BitLen(n) == IF n = 0 THEN 0 ELSE 1 + BitLen(n \div 2)

\* an f64 holding a non-negative integer: mant * 2^exp, mant < 2^MantBits
F64(m, e) == [mant |-> m, exp |-> e]

\* `n as f64`: the nearest f64, ties to the even significand
ToF64(n) ==
    IF BitLen(n) <= MantBits
    THEN F64(n, 0)
    ELSE LET sh == BitLen(n) - MantBits
             q == n \div (2 ^ sh)
             rem == n % (2 ^ sh)
             half == 2 ^ (sh - 1)
             m == IF rem > half \/ (rem = half /\ q % 2 = 1) THEN q + 1 ELSE q
         IN IF m = 2 ^ MantBits THEN F64(m \div 2, sh + 1) ELSE F64(m, sh)

\* `f as u64` / `f as u128`: the integer, saturating at the width
F64ToUnsigned(f, bits) ==
    LET v == f.mant * (2 ^ f.exp)
    IN IF v > (2 ^ bits) - 1 THEN (2 ^ bits) - 1 ELSE v

\* const MAX_F64_INTEGER: f64 = 2^53 - 1
MAX_F64_INTEGER == ToF64((2 ^ MantBits) - 1)

\* the outcome of a call that may panic
Panic == [panicked |-> TRUE]
Returned(v) == [panicked |-> FALSE, val |-> v]

\* from_u64 whose assertion is strict
from_u64_Strict(number) ==
    IF ~(number < F64ToUnsigned(MAX_F64_INTEGER, U64Bits))
    THEN Panic
    ELSE Returned(ToF64(number))

\* from_u64 without the assertion
from_u64_NoAssert(number) == Returned(ToF64(number))

from_u64(number) ==
    IF ~(number <= F64ToUnsigned(MAX_F64_INTEGER, U64Bits))
    THEN Panic
    ELSE Returned(ToF64(number))

from_u128(number) ==
    IF ~(number <= F64ToUnsigned(MAX_F64_INTEGER, U128Bits))
    THEN Panic
    ELSE Returned(ToF64(number))

\* host blobs: the bytes and the declared content type
HostBlobs == {[bytes |-> <<>>, type |-> ""],
              [bytes |-> <<10, 20, 30>>, type |-> "text/plain"]}

Min(a, b) == IF a < b THEN a ELSE b

\* Blob.slice(start, end) of the host: the range is clamped to the size
HostSlice(blob, fstart, fend) ==
    LET size == Len(blob.bytes)
        from == Min(F64ToUnsigned(fstart, U64Bits), size)
        to == Min(F64ToUnsigned(fend, U64Bits), size)
    IN [bytes |-> SubSeq(blob.bytes, from + 1, to), type |-> ""]

\* blob_slice that hands the two ends to the host in the wrong order
blob_slice_Swapped(blob, start, end) ==
    LET s == from_u64(start)
        e == from_u64(end)
    IN IF s.panicked \/ e.panicked
       THEN [panicked |-> TRUE, host |-> <<>>]
       ELSE [panicked |-> FALSE,
             out |-> HostSlice(blob, e.val, s.val),
             host |-> <<[call |-> "slice", start |-> e.val, end |-> s.val]>>]

\* blob_slice: both ends cross the bridge, then the host slices.
\* [panicked, out, host]: host is the list of calls made on the host blob
blob_slice(blob, start, end) ==
    LET s == from_u64(start)
        e == from_u64(end)
    IN IF s.panicked \/ e.panicked
       THEN [panicked |-> TRUE, host |-> <<>>]
       ELSE [panicked |-> FALSE,
             out |-> HostSlice(blob, s.val, e.val),
             host |-> <<[call |-> "slice", start |-> s.val, end |-> e.val]>>]

(***************************************************************************)
(* blob.rs: Blob and File                                                  *)
(***************************************************************************)
None == [some |-> FALSE]
Some(v) == [some |-> TRUE, val |-> v]

\* std::time::Duration, from_millis and as_millis
Duration_from_millis(ms) ==
    [secs |-> ms \div 1000, nanos |-> (ms % 1000) * 1000000]
Duration_as_millis(d) == (d.secs * 1000) + (d.nanos \div 1000000)

\* lastModified of host files, in milliseconds: before the epoch, small, the
\* largest safe integer and beyond it
HostTimes == {-1, 0, 1, (2 ^ MantBits) - 1, 2 ^ MantBits, (2 ^ MantBits) + 1}

\* host files: a host blob with a name and a lastModified
HostFiles ==
    {[bytes |-> b.bytes, type |-> b.type, name |-> "a.txt", lastModified |-> t] :
        b \in HostBlobs, t \in HostTimes}

\* the host clock, read when a file is created without a lastModified
HostNow == 2

\* new File([contents], name, options) of the host
HostNewFile(contents, name, options) ==
    [bytes |-> contents.bytes,
     type |-> IF options.type.some THEN options.type.val ELSE "",
     name |-> name,
     lastModified |-> IF options.lastModified.some
                      THEN options.lastModified.val.mant
                           * (2 ^ options.lastModified.val.exp)
                      ELSE HostNow]

\* what `f as u64` may yield for a negative f: 0 where the cast saturates,
\* another value where the build leaves the cast undefined
NegativeCasts == {0, 2 ^ MantBits}

Blob_from_raw(inner) == [variant |-> "Blob", inner |-> inner]
File_from_raw(inner) == [variant |-> "File", inner |-> inner]

\* BlobLike::size and File::size: self.as_raw().size() as u64
BlobLike_size(b) == F64ToUnsigned(ToF64(Len(b.inner.bytes)), U64Bits)

\* BlobLike::raw_mime_type
raw_mime_type(b) == b.inner.type

\* File::name
File_name(f) == f.inner.name

\* File::last_modified_since_epoch: from_millis(last_modified() as u64);
\* `cast` is what the cast yields should last_modified() be negative
last_modified_since_epoch(f, cast) ==
    Duration_from_millis(IF f.inner.lastModified < 0
                         THEN cast
                         ELSE F64ToUnsigned(ToF64(f.inner.lastModified), U64Bits))

\* File::new_with_options, with a blob as contents.
\* [panicked, out, host]: host is the list of calls made on the host
File_new_with_options(name, contents, mime_type, last_modified_since_epoch_) ==
    LET lm == IF last_modified_since_epoch_.some
              THEN from_u128(Duration_as_millis(last_modified_since_epoch_.val))
              ELSE Returned(F64(0, 0))
        options == [type |-> mime_type,
                    lastModified |-> IF last_modified_since_epoch_.some
                                     THEN Some(lm.val) ELSE None]
    IN IF lm.panicked
       THEN [panicked |-> TRUE, host |-> <<>>]
       ELSE [panicked |-> FALSE,
             out |-> File_from_raw(HostNewFile(contents, name, options)),
             host |-> <<[call |-> "File", name |-> name, options |-> options]>>]

\* impl BlobLike for Blob: slice
Blob_slice(b, start, end) ==
    LET r == blob_slice(b.inner, start, end)
    IN IF r.panicked
       THEN [panicked |-> TRUE, host |-> <<>>]
       ELSE [panicked |-> FALSE, out |-> Blob_from_raw(r.out), host |-> r.host]

\* File::slice that leaves the lastModified to the host
File_slice_NoLastModified(f, start, end, cast) ==
    LET b == blob_slice(f.inner, start, end)
    IN IF b.panicked
       THEN [panicked |-> TRUE, host |-> <<>>]
       ELSE LET raw == raw_mime_type(f)
                r == File_new_with_options(File_name(f), b.out,
                        IF raw = "" THEN None ELSE Some(raw), None)
            IN [panicked |-> FALSE, out |-> r.out, host |-> b.host \o r.host]

\* impl BlobLike for File: slice
File_slice(f, start, end, cast) ==
    LET b == blob_slice(f.inner, start, end)
    IN IF b.panicked
       THEN [panicked |-> TRUE, host |-> <<>>]
       ELSE LET raw == raw_mime_type(f)
                r == File_new_with_options(File_name(f), b.out,
                        IF raw = "" THEN None ELSE Some(raw),
                        Some(last_modified_since_epoch(f, cast)))
            IN IF r.panicked
               THEN [panicked |-> TRUE, host |-> b.host]
               ELSE [panicked |-> FALSE, out |-> r.out, host |-> b.host \o r.host]

(***************************************************************************)
(* file_list.rs: FileList                                                  *)
(***************************************************************************)
\* the files a host collection may hold
ListFiles == {f \in HostFiles : f.lastModified \in {0, 1}}

\* web_sys::FileList::length and get: js is the sequence of the host's files
HostListLength(js) == Len(js)
HostListGet(js, i) == IF i < Len(js) THEN Some(js[i + 1]) ELSE None

\* from_raw that starts at index 1
FileList_from_raw_SkipsFirst(js) ==
    LET length == HostListLength(js)
    IN [inner |-> [k \in 1 .. length - 1 |-> File_from_raw(HostListGet(js, k).val)]]

\* FileList::from_raw: (0..length).map(|i| File::from_raw(js.get(i))).collect()
FileList_from_raw(js) ==
    LET length == HostListLength(js)
    IN [inner |-> [k \in 1 .. length |-> File_from_raw(HostListGet(js, k - 1).val)]]

\* impl Deref for FileList: the slice of the files
FileList_deref(fl) == fl.inner

\* an empty host collection, no FileList built
NoList == [host |-> <<>>, built |-> FALSE]

\* no call made on blob.rs yet
NoCall == [op |-> "none", args |-> <<>>]

(***************************************************************************)
(* Actions                                                                 *)
(***************************************************************************)
Init ==
    /\ ops = [o \in Ops |-> NewOp]
    /\ bridge = NoCall
    /\ list = NoList

StartRead(o) ==
    /\ ops[o].handle = "none"
    /\ \E mode \in Modes, blob \in Contents, accepted \in BOOLEAN :
          ops' = [ops EXCEPT ![o] = read_as(@, mode, blob, accepted)]
    /\ UNCHANGED <<bridge, list>>

\* the host settles a read: DONE, with the result or the error
HostSettle(r, outcome) ==
    IF outcome = "ok"
    THEN [r EXCEPT !.readyState = DONE, !.result = HostDecode(r.mode, r.blob)]
    ELSE [r EXCEPT !.readyState = DONE, !.error = outcome]

\* the host task that ends a read: DONE, result or error, then "loadend"
HostEnd(r, outcome) ==
    [DispatchLoadend(HostSettle(r, outcome)) EXCEPT !.notified = @ + 1]

HostFinish(o) ==
    /\ ops[o].readyState = LOADING
    /\ \E outcome \in {"ok"} \cup Exceptions :
          ops' = [ops EXCEPT ![o] = HostEnd(@, outcome)]
    /\ UNCHANGED <<bridge, list>>

HostNotify(o) ==
    /\ ops[o].readyState = DONE
    /\ ops[o].notified < MaxNotify
    /\ ops' = [ops EXCEPT ![o] = [DispatchLoadend(@) EXCEPT !.notified = @ + 1]]
    /\ UNCHANGED <<bridge, list>>

\* a drop that also aborts every other reader that is loading
Drop_AbortsAll(o) ==
    /\ ops[o].handle = "held"
    /\ ops' = [p \in Ops |->
                 IF p = o THEN DropHandle(ops[p])
                 ELSE IF ops[p].readyState = LOADING THEN HostAbort(ops[p])
                 ELSE ops[p]]
    /\ UNCHANGED <<bridge, list>>

Drop(o) ==
    /\ ops[o].handle = "held"
    /\ ops' = [ops EXCEPT ![o] = DropHandle(@)]
    /\ UNCHANGED <<bridge, list>>

Forget(o) ==
    /\ ops[o].handle = "held"
    /\ ops' = [ops EXCEPT ![o].handle = "forgotten"]
    /\ UNCHANGED <<bridge, list>>

Next ==
    \/ \E o \in Ops : StartRead(o)
    \/ \E o \in Ops : HostFinish(o)
    \/ \E o \in Ops : HostNotify(o)
    \/ \E o \in Ops : Drop(o)
    \/ \E o \in Ops : Forget(o)

Spec == Init /\ [][Next]_vars

\* the host settles a read and leaves the "loadend" to a later step
HostDone(o) ==
    /\ ops[o].readyState = LOADING
    /\ \E outcome \in {"ok"} \cup Exceptions :
          ops' = [ops EXCEPT ![o] = HostSettle(@, outcome)]
    /\ UNCHANGED <<bridge, list>>

NextSplit ==
    \/ \E o \in Ops : StartRead(o)
    \/ \E o \in Ops : HostDone(o)
    \/ \E o \in Ops : HostNotify(o)
    \/ \E o \in Ops : Drop(o)
    \/ \E o \in Ops : Forget(o)

\* a host that is seen DONE before it has dispatched "loadend": the handle
\* can be discarded between the two
SpecSplit == Init /\ [][NextSplit]_vars

FromU64 ==
    /\ bridge = NoCall
    /\ \E n \in 0 .. (2 ^ U64Bits) - 1 :
          bridge' = [op |-> "from_u64", args |-> <<n>>, ret |-> from_u64(n)]
    /\ UNCHANGED <<ops, list>>

FromU128 ==
    /\ bridge = NoCall
    /\ \E n \in 0 .. (2 ^ U128Bits) - 1 :
          bridge' = [op |-> "from_u128", args |-> <<n>>, ret |-> from_u128(n)]
    /\ UNCHANGED <<ops, list>>

BlobSlice ==
    /\ bridge = NoCall
    /\ \E blob \in HostBlobs, start, end \in 0 .. (2 ^ U64Bits) - 1 :
          bridge' = [op |-> "blob_slice", args |-> <<start, end>>, blob |-> blob,
                     ret |-> blob_slice(blob, start, end)]
    /\ UNCHANGED <<ops, list>>

BlobLikeSliceBlob ==
    /\ bridge = NoCall
    /\ \E blob \in HostBlobs, start, end \in 0 .. (2 ^ U64Bits) - 1 :
          bridge' = [op |-> "Blob::slice", args |-> <<start, end>>,
                     self |-> Blob_from_raw(blob),
                     ret |-> Blob_slice(Blob_from_raw(blob), start, end)]
    /\ UNCHANGED <<ops, list>>

BlobLikeSliceFile ==
    /\ bridge = NoCall
    /\ \E file \in HostFiles, start, end \in 0 .. (2 ^ U64Bits) - 1 :
          \E cast \in IF file.lastModified < 0 THEN NegativeCasts ELSE {0} :
             bridge' = [op |-> "File::slice", args |-> <<start, end>>,
                        self |-> File_from_raw(file), cast |-> cast,
                        ret |-> File_slice(File_from_raw(file), start, end, cast)]
    /\ UNCHANGED <<ops, list>>

NextBridge ==
    \/ FromU64
    \/ FromU128
    \/ BlobSlice
    \/ BlobLikeSliceBlob
    \/ BlobLikeSliceFile

\* the boundary crossings of blob.rs, on every magnitude of the width
SpecBridge == Init /\ [][NextBridge]_vars

\* the host changes its collection: a file is added, replaced or removed
HostListMutate ==
    /\ \/ \E f \in ListFiles :
             /\ Len(list.host) < MaxFiles
             /\ list' = [list EXCEPT !.host = Append(@, f)]
       \/ \E i \in DOMAIN list.host, f \in ListFiles :
             /\ f # list.host[i]
             /\ list' = [list EXCEPT !.host[i] = f]
       \/ \E i \in DOMAIN list.host :
             list' = [list EXCEPT !.host = SubSeq(@, 1, i - 1)
                                            \o SubSeq(@, i + 1, Len(@))]
    /\ UNCHANGED <<ops, bridge>>

\* FileList::from_raw on the host collection as it is now
FileListFromRaw ==
    /\ ~list.built
    /\ list' = [host |-> list.host, built |-> TRUE, js |-> list.host,
                fl |-> FileList_from_raw(list.host)]
    /\ UNCHANGED <<ops, bridge>>

NextList ==
    \/ HostListMutate
    \/ FileListFromRaw

\* a FileList and the host collection it was built from
SpecList == Init /\ [][NextList]_vars

\* the host ends every read it has accepted
FairSpec == Spec /\ \A o \in Ops : WF_vars(HostFinish(o))

(***************************************************************************)
(* The state machine of a read operation, read off the record              *)
(***************************************************************************)
Alive == {"held", "forgotten"}

Completed(r) == \E i \in DOMAIN r.calls : r.calls[i].ok
Errored(r) == \E i \in DOMAIN r.calls : ~r.calls[i].ok
Aborted(r) == \E i \in DOMAIN r.log : r.log[i] = "abort"

TerminalEvents(r) ==
    {e \in {"Completed", "Errored", "Aborted"} :
        \/ e = "Completed" /\ Completed(r)
        \/ e = "Errored" /\ Errored(r)
        \/ e = "Aborted" /\ Aborted(r)}

\* the read request was issued and no terminal event has been observed
Reading(r) ==
    /\ r.handle \notin {"none", "failed"}
    /\ TerminalEvents(r) = {}

\* the step discards the handle of o
Discards(o) == ops[o].handle = "held" /\ ops'[o].handle = "dropped"

(***************************************************************************)
(* Claims                                                                  *)
(***************************************************************************)

\* C1: a handle dropped before any load-finished notification has invoked
\* the callback leaves the callback uninvoked: neither the drop itself nor
\* any notification the host delivers after the drop invokes it, and nothing
\* is thrown out of the listener.
C1_DroppedNeverInvoked ==
    [][\A o \in Ops :
          (/\ Discards(o) \/ ops[o].handle = "dropped"
           /\ ops[o].calls = <<>>
           /\ ~ops[o].fault)
          => (ops'[o].calls = <<>> /\ ~ops'[o].fault)]_vars

\* a notification was delivered after a drop during the read, and the
\* callback was not invoked
C1_Witness ==
    \E o \in Ops :
        /\ ops[o].handle = "dropped"
        /\ Aborted(ops[o])
        /\ ops[o].notified >= 1
        /\ ops[o].calls = <<>>

\* C2: the callback is invoked at most once, and an invocation happens only
\* in a step that starts with the handle alive and the operation Reading and
\* that does not discard the handle.
C2_AtMostOnceWhileAlive ==
    /\ [](\A o \in Ops : Len(ops[o].calls) <= 1)
    /\ [][\A o \in Ops :
            ops'[o].calls # ops[o].calls
            => (/\ ops[o].handle \in Alive
                /\ ops'[o].handle = ops[o].handle
                /\ Reading(ops[o])
                /\ ops[o].readyState = LOADING)]_vars

\* two notifications were delivered and the callback ran once
C2_Witness ==
    \E o \in Ops : ops[o].notified >= 2 /\ Len(ops[o].calls) = 1

\* C3: discarding the handle while the read is in flight first removes the
\* loadend listener and then aborts the host reader; the loadend that abort
\* fires finds no listener: the callback is not run and nothing is thrown.
C3_DeregisterThenAbort ==
    [][\A o \in Ops :
          (Discards(o) /\ Reading(ops[o]))
          => (/\ ops'[o].log = ops[o].log \o <<"removeEventListener", "abort">>
              /\ ~ops'[o].registered
              /\ ops'[o].readyState = DONE
              /\ ops'[o].calls = ops[o].calls
              /\ ops'[o].fault = ops[o].fault)]_vars

\* a read of an array buffer was discarded in flight
C3_Witness ==
    \E o \in Ops :
        /\ ops[o].handle = "dropped"
        /\ ops[o].log = <<"new", "addEventListener", "array_buffer",
                          "removeEventListener", "abort">>

\* what the caller is to receive for a read of `blob` in `mode` that the
\* host ended with `error`
ReadOutcome(mode, blob, error) ==
    IF error # NoError THEN Err(error)
    ELSE CASE mode = "text" -> Ok([type |-> "String", val |-> blob])
           [] mode = "data_url" ->
                Ok([type |-> "String", val |-> <<"data:", ";base64,">> \o blob])
           [] OTHER -> Ok([type |-> "ArrayBuffer", val |-> blob])

\* C4: a read in flight whose handle is not discarded ends with the callback
\* invoked exactly once; what the callback receives is the Read Outcome of
\* the blob (for a text read that succeeds, the text of the blob).
C4_EventuallyCompletes ==
    /\ [](\A o \in Ops : \A i \in DOMAIN ops[o].calls :
             ops[o].calls[i] = ReadOutcome(ops[o].mode, ops[o].blob, ops[o].error))
    /\ \A o \in Ops :
          (ops[o].readyState = LOADING)
          ~> (Len(ops[o].calls) = 1 \/ ops[o].handle = "dropped")

\* as in the test read_as_text: a forgotten handle, a text read, the text
C4_Witness ==
    \E o \in Ops :
        /\ ops[o].handle = "forgotten"
        /\ ops[o].mode = "text"
        /\ ops[o].blob = <<"H", "i">>
        /\ ops[o].calls = <<Ok([type |-> "String", val |-> <<"H", "i">>])>>

\* C5: at most one of completion, error and abort is observed for one
\* operation, and once one is observed the set of observed terminal events
\* never changes.
C5_TerminalExclusive ==
    /\ [](\A o \in Ops : Cardinality(TerminalEvents(ops[o])) <= 1)
    /\ [][\A o \in Ops :
            TerminalEvents(ops[o]) # {}
            => TerminalEvents(ops'[o]) = TerminalEvents(ops[o])]_vars

\* a completed operation whose handle was dropped and that was notified again
C5_Witness ==
    \E o \in Ops :
        /\ Completed(ops[o])
        /\ ops[o].handle = "dropped"
        /\ ops[o].notified >= 2

\* C6: discarding the handle of an operation that is Completed or Errored
\* issues no abort, finds the listener already removed, leaves the host
\* reader as it is and does not invoke the callback.
C6_TerminalDropNoOp ==
    [][\A o \in Ops :
          (Discards(o) /\ (Completed(ops[o]) \/ Errored(ops[o])))
          => (/\ ~Aborted(ops'[o])
              /\ ~ops[o].registered /\ ~ops'[o].registered
              /\ ops'[o].readyState = ops[o].readyState
              /\ ops'[o].result = ops[o].result
              /\ ops'[o].error = ops[o].error
              /\ ops'[o].calls = ops[o].calls
              /\ ops'[o].fault = ops[o].fault)]_vars

\* the handle of an errored operation was dropped
C6_Witness ==
    \E o \in Ops :
        /\ ops[o].handle = "dropped"
        /\ Errored(ops[o])
        /\ ~Aborted(ops[o])

\* C7: what the callback receives is a read error exactly when the host
\* reader's error slot is set, and the value of the result slot otherwise;
\* no exception is thrown out of the listener.
C7_ErrorSlotDecides ==
    \A o \in Ops :
        /\ ~ops[o].fault
        /\ \A i \in DOMAIN ops[o].calls :
              LET c == ops[o].calls[i]
              IN /\ ~c.ok <=> ops[o].error # NoError
                 /\ ~c.ok => c.error = ops[o].error
                 /\ c.ok => /\ c.val.val = ops[o].result.val
                            /\ ops[o].result.kind # "null"
                            /\ c.val.type = "String" <=> ops[o].mode # "array_buffer"

\* a read error was delivered to the callback
C7_Witness ==
    \E o \in Ops :
        /\ ops[o].calls # <<>>
        /\ ops[o].calls[1] = Err("NotReadableError")
        /\ ops[o].error = "NotReadableError"

\* C8: once the handle is discarded no loadend listener of the operation is
\* registered, and if the operation had not completed the host reader has
\* been aborted and is no longer loading.
C8_ReleasedOnDiscard ==
    \A o \in Ops :
        ops[o].handle = "dropped"
        => (/\ ~ops[o].registered
            /\ ops[o].on_loadend = "None"
            /\ (~Completed(ops[o]) /\ ~Errored(ops[o]))
               => (Aborted(ops[o]) /\ ops[o].readyState = DONE))

\* a handle discarded in flight: listener released, reader aborted
C8_Witness ==
    \E o \in Ops :
        /\ ops[o].handle = "dropped"
        /\ ops[o].calls = <<>>
        /\ Aborted(ops[o])
        /\ ~ops[o].registered

\* the largest integer below which every integer is an f64: 2^53 - 1
MaxSafe == (2 ^ MantBits) - 1

\* C9: from_u64 and from_u128 of a magnitude above 2^53 - 1 panic and return
\* no converted value, and blob_slice with start or end above 2^53 - 1
\* panics without the host slice having been called.
C9_TooLargeFails ==
    /\ bridge.op \in {"from_u64", "from_u128"}
       => (bridge.args[1] > MaxSafe => bridge.ret = Panic)
    /\ bridge.op = "blob_slice"
       => ((bridge.args[1] > MaxSafe \/ bridge.args[2] > MaxSafe)
           => (bridge.ret.panicked /\ bridge.ret.host = <<>>))

\* blob_slice was called with an end of 2^53, a magnitude that is an f64
C9_Witness ==
    /\ bridge.op = "blob_slice"
    /\ bridge.args = <<0, MaxSafe + 1>>
    /\ bridge.ret.panicked

\* C10: from_u64 and from_u128 of a magnitude up to 2^53 - 1 return, and
\* the f64 returned converts back to the magnitude.
C10_RoundTrip ==
    /\ bridge.op = "from_u64"
       => (bridge.args[1] <= MaxSafe
           => (/\ ~bridge.ret.panicked
               /\ F64ToUnsigned(bridge.ret.val, U64Bits) = bridge.args[1]))
    /\ bridge.op = "from_u128"
       => (bridge.args[1] <= MaxSafe
           => (/\ ~bridge.ret.panicked
               /\ F64ToUnsigned(bridge.ret.val, U128Bits) = bridge.args[1]))

\* from_u64 of 2^53 - 1 itself
C10_Witness ==
    /\ bridge.op = "from_u64"
    /\ bridge.args = <<MaxSafe>>
    /\ ~bridge.ret.panicked

C13_FileListSnapshot ==
    list.built
    => /\ Len(FileList_deref(list.fl)) = Len(list.js)
       /\ \A i \in DOMAIN list.js :
             FileList_deref(list.fl)[i] = File_from_raw(list.js[i])

\* a FileList of two files whose host collection has since been emptied
C13_Witness ==
    /\ list.built
    /\ Len(list.js) = 2
    /\ list.js[1] # list.js[2]
    /\ list.host = <<>>
    /\ Len(FileList_deref(list.fl)) = 2

\* the position of the first `what` among the calls made on the host reader,
\* 0 when there is none
FirstCall(r, what) ==
    IF \E i \in DOMAIN r.log : r.log[i] = what
    THEN CHOOSE i \in DOMAIN r.log :
            r.log[i] = what /\ \A j \in 1 .. i - 1 : r.log[j] # what
    ELSE 0

\* C14: read_as registers the loadend listener before it issues the read
\* request, has issued the request when it returns, and returns with the
\* callback not invoked: the callback runs only in a later step of the host.
C14_RegisterThenReadThenReturn ==
    /\ [](\A o \in Ops :
            /\ ops[o].handle = "none" => (ops[o].calls = <<>> /\ ops[o].log = <<>>)
            /\ ops[o].handle \notin {"none", "failed"}
               => /\ FirstCall(ops[o], "addEventListener") > 0
                  /\ FirstCall(ops[o], "addEventListener")
                        < FirstCall(ops[o], ops[o].mode))
    /\ [][\A o \in Ops :
            (ops[o].handle = "none" /\ ops'[o].handle = "held")
            => (/\ ops'[o].readyState = LOADING
                /\ ops'[o].registered
                /\ ops'[o].calls = <<>>
                /\ ~ops'[o].fault)]_vars

\* read_as has returned for a data URL read that is in flight, listener on
C14_Witness ==
    \E o \in Ops :
        /\ ops[o].handle = "held"
        /\ ops[o].mode = "data_url"
        /\ ops[o].readyState = LOADING
        /\ ops[o].registered
        /\ ops[o].calls = <<>>

\* C15: when the host rejects the read request no handle is returned, the
\* operation is never Reading or terminal, the host reader stays empty and
\* the callback is never invoked.
C15_IssueFailureIsFatal ==
    \A o \in Ops :
        (\E i \in DOMAIN ops[o].log : ops[o].log[i] = "rejected")
        => (/\ ops[o].handle = "failed"
            /\ ~Reading(ops[o])
            /\ TerminalEvents(ops[o]) = {}
            /\ ops[o].readyState = EMPTY
            /\ ops[o].calls = <<>>
            /\ ~ops[o].fault)

\* one read was rejected while the other operation went on to complete
C15_Witness ==
    \E a, b \in Ops :
        /\ ops[a].handle = "failed"
        /\ Rejected(ops[a])
        /\ Completed(ops[b])

\* C16: read operations are independent: a step of one operation (a start,
\* a completion, a notification, a discard with its abort, a forget) leaves
\* the record of every other operation as it is, in every interleaving.
C16_Independent ==
    [][\A a \in Ops :
          ops'[a] # ops[a] => \A b \in Ops \ {a} : ops'[b] = ops[b]]_vars

\* one operation was aborted by a discard, another is in flight and untouched
C16_Witness ==
    \E a, b \in Ops :
        /\ a # b
        /\ ops[a].handle = "dropped"
        /\ Aborted(ops[a])
        /\ ops[b].handle = "held"
        /\ ops[b].readyState = LOADING
        /\ ops[b].registered
        /\ ops[b].calls = <<>>

\* C17: whatever the state of the host reader at the discard, also DONE with
\* the loadend not yet dispatched, a discarded handle has its listener
\* released, and neither the discard nor a later notification invokes the
\* callback.
C17_DiscardAlwaysReleases ==
    /\ [](\A o \in Ops :
            ops[o].handle = "dropped"
            => (~ops[o].registered /\ ops[o].on_loadend = "None"))
    /\ [][\A o \in Ops :
            (Discards(o) \/ ops[o].handle = "dropped")
            => (ops'[o].calls = ops[o].calls /\ ops'[o].fault = ops[o].fault)]_vars

\* a handle discarded with the reader DONE and the loadend outstanding, and a
\* notification delivered afterwards: no abort, no invocation
C17_Witness ==
    \E o \in Ops :
        /\ ops[o].handle = "dropped"
        /\ ops[o].readyState = DONE
        /\ ~Aborted(ops[o])
        /\ ops[o].notified >= 1
        /\ ops[o].calls = <<>>
        /\ ops[o].log[Len(ops[o].log)] = "removeEventListener"

=============================================================================
